---- MODULE Spec2Model ----
(***************************************************************************)
(* A state-machine model of the image viewer in src/view.py: the image     *)
(* state (pixmap, rotation_angle, scale_factor, the two "modified" flags), *)
(* the crop selection and its mapping to base-image coordinates, the       *)
(* directory listing, the enabled state of the QActions and the            *)
(* background-removal worker thread with the queued signals it posts to    *)
(* the UI thread.                                                          *)
(*                                                                         *)
(* Conventions.                                                            *)
(*  - A bitmap is a symbolic value [src, x, y, cw, ch, rot]: the           *)
(*    sub-rectangle (x, y, cw, ch) of the decoded picture src, rotated     *)
(*    clockwise by rot degrees.  Copying a sub-rectangle and rotating by a *)
(*    multiple of 90 degrees are exact on this representation.             *)
(*  - scale_factor is a Python float; it is modelled by the exact rational *)
(*    <<num, den>> in lowest terms (floating point rounding is not         *)
(*    modelled).                                                           *)
(*  - A QRect is [x, y, w, h] with w = right - left + 1, as in Qt.          *)
(*  - Every method of ImageViewer is an operator from a viewer-state       *)
(*    record to a viewer-state record, so that a handler that calls        *)
(*    another handler is the composition of the two; an action of the      *)
(*    model is one whole handler run by the UI event loop.                 *)
(***************************************************************************)
EXTENDS Integers, Sequences, FiniteSets, TLC

(***************************************************************************)
(* Bounds of the model.                                                    *)
(***************************************************************************)
\* Background-removal requests started in one run.
MaxRequests == 2
\* Crops applied in one run.
MaxCrops == 1
\* Files written by save / save-as in one run.
MaxSaves == 1
\* Largest numerator or denominator zoom_in / zoom_out may produce.
MaxScaleTerm == 5
\* Width and height of the decoded pictures and of the scroll area.
ImgLong == 20
ImgShort == 10
AreaLong == 40
AreaShort == 30
\* Largest width and height of the pictures of other sizes.
MaxSide == 8

(***************************************************************************)
(* Program constants.                                                      *)
(***************************************************************************)
\* apply_crop_from_selection refuses selections narrower or lower than this.
MinApplySize == 10
\* update_image_display: min_dim.
min_dim == 1

None == "None"
\* No QPoint and no crop ratio (Python's None where a tuple is expected).
NoPoint == <<>>
NoRatio == <<>>

(***************************************************************************)
(* Rationals <<n, d>>, d > 0, in lowest terms.                             *)
(***************************************************************************)
RECURSIVE Gcd(_, _)
Gcd(a, b) == IF b = 0 THEN a ELSE Gcd(b, a % b)

Abs(n) == IF n < 0 THEN -n ELSE n

Rat(n, d) ==
    LET g == Gcd(Abs(n), d)
    IN  IF g = 0 THEN <<0, 1>> ELSE <<n \div g, d \div g>>

RatMul(p, q) == Rat(p[1] * q[1], p[2] * q[2])
RatLess(p, q) == p[1] * q[2] < q[1] * p[2]
RatMin(p, q) == IF RatLess(q, p) THEN q ELSE p
RatMax(p, q) == IF RatLess(p, q) THEN q ELSE p
One == <<1, 1>>

\* Python int(): truncation toward zero of n / d, d > 0.
Trunc(n, d) == IF n >= 0 THEN n \div d ELSE -((-n) \div d)
\* int(k * q) for an integer k and a rational q.
IntMul(k, q) == Trunc(k * q[1], q[2])

Max(a, b) == IF a >= b THEN a ELSE b
Min(a, b) == IF a <= b THEN a ELSE b

(***************************************************************************)
(* QRect, QSize                                                            *)
(***************************************************************************)
Rect(x, y, w, h) == [x |-> x, y |-> y, w |-> w, h |-> h]
\* QRect(): left 0, top 0, right -1, bottom -1.
NullRect == Rect(0, 0, 0, 0)
\* QRect(p1, p2): both corners inclusive.
RectOfPoints(p1, p2) == Rect(p1[1], p1[2], p2[1] - p1[1] + 1, p2[2] - p1[2] + 1)
\* QRect(p, QSize()): the invalid size is (-1, -1).
RectAtPoint(p) == Rect(p[1], p[2], -1, -1)
RectIsNull(r) == r.w = 0 /\ r.h = 0
RectIsEmpty(r) == r.w <= 0 \/ r.h <= 0
\* QRect::normalized (Qt 6): a side with right < left is swapped to
\* [right + 1, left - 1].
Normalized(r) ==
    [x |-> IF r.w < 0 THEN r.x + r.w ELSE r.x,
     y |-> IF r.h < 0 THEN r.y + r.h ELSE r.y,
     w |-> Abs(r.w),
     h |-> Abs(r.h)]
Translated(r, dx, dy) == [r EXCEPT !.x = r.x + dx, !.y = r.y + dy]
\* QRect::intersected (Qt 6): QRect() when either is null or they miss each
\* other; sides with right < left - 1 are read swapped.
Intersected(a, b) ==
    LET na == Normalized(a)
        nb == Normalized(b)
        l == Max(na.x, nb.x)
        t == Max(na.y, nb.y)
        r == Min(na.x + na.w, nb.x + nb.w)
        bt == Min(na.y + na.h, nb.y + nb.h)
    IN  IF \/ RectIsNull(a) \/ RectIsNull(b)
           \/ na.x > nb.x + nb.w - 1 \/ nb.x > na.x + na.w - 1
           \/ na.y > nb.y + nb.h - 1 \/ nb.y > na.y + na.h - 1
        THEN NullRect
        ELSE Rect(l, t, r - l, bt - t)
\* a lies inside the w x h area with origin (0, 0).
RectInside(a, w, h) ==
    /\ 0 <= a.x /\ 0 <= a.y
    /\ a.x + a.w <= w /\ a.y + a.h <= h

\* QSize::scaled(target, Qt::KeepAspectRatio) of the size (w, h).
QSizeScaledKeep(w, h, tw, th) ==
    IF w = 0 \/ h = 0 THEN <<tw, th>>
    ELSE LET rw == (th * w) \div h
         IN  IF rw <= tw THEN <<rw, th>> ELSE <<tw, (tw * h) \div w>>

(***************************************************************************)
(* Bitmaps                                                                 *)
(***************************************************************************)
Pictures == {"imgA", "bgOut"}
\* QPixmap(): the null pixmap.
Null == [src |-> "Null", x |-> 0, y |-> 0, cw |-> 0, ch |-> 0, rot |-> 0]
\* Bytes that no decoder accepts.
Bad == [src |-> "Bad", x |-> 0, y |-> 0, cw |-> 0, ch |-> 0, rot |-> 0]
PicW(s) == ImgLong
PicH(s) == ImgShort
\* The whole decoded picture s.
Picture(s) == [src |-> s, x |-> 0, y |-> 0, cw |-> PicW(s), ch |-> PicH(s), rot |-> 0]
\* A decoded picture of w x h pixels.
PictureOfSize(w, h) ==
    [src |-> "imgSized", x |-> 0, y |-> 0, cw |-> w, ch |-> h, rot |-> 0]

IsNull(b) == b.src = "Null"
\* QPixmap.width() / height(); 0 for a null pixmap.
Width(b) == IF IsNull(b) THEN 0 ELSE IF b.rot % 180 = 0 THEN b.cw ELSE b.ch
Height(b) == IF IsNull(b) THEN 0 ELSE IF b.rot % 180 = 0 THEN b.ch ELSE b.cw

\* QPixmap.transformed(QTransform().rotate(angle)) for a multiple of 90.
Transformed(b, angle) ==
    IF IsNull(b) THEN Null ELSE [b EXCEPT !.rot = (b.rot + angle) % 360]

\* The sub-rectangle r (given in the bitmap's own, rotated coordinates and
\* lying inside it) as a bitmap.
SubBitmap(b, r) ==
    CASE b.rot = 0 ->
            [b EXCEPT !.x = b.x + r.x, !.y = b.y + r.y, !.cw = r.w, !.ch = r.h]
      [] b.rot = 90 ->
            [b EXCEPT !.x = b.x + r.y, !.y = b.y + b.ch - r.x - r.w,
                      !.cw = r.h, !.ch = r.w]
      [] b.rot = 180 ->
            [b EXCEPT !.x = b.x + b.cw - r.x - r.w, !.y = b.y + b.ch - r.y - r.h,
                      !.cw = r.w, !.ch = r.h]
      [] OTHER ->
            [b EXCEPT !.x = b.x + b.cw - r.y - r.h, !.y = b.y + r.x,
                      !.cw = r.h, !.ch = r.w]

\* QPixmap.copy(rect): the rectangle is clipped to the pixmap; an empty
\* rectangle, or one that misses the pixmap, copies the whole pixmap.
PixmapCopy(b, r) ==
    IF IsNull(b) THEN Null
    ELSE LET whole == Rect(0, 0, Width(b), Height(b))
             c == IF RectIsEmpty(r) THEN whole ELSE Intersected(whole, r)
         IN  IF RectIsNull(c) THEN b ELSE SubBitmap(b, c)

\* A displayed bitmap: the bitmap `of` resampled to w x h pixels.
Scaled(b, w, h) == [of |-> b, w |-> w, h |-> h]
\* The pixmap of a label that shows none.
NullShown == Scaled(Null, 0, 0)
\* QPixmap.scaled(tw, th, Qt.KeepAspectRatio, ...).
PixmapScaledKeep(b, tw, th) ==
    IF IsNull(b) \/ tw <= 0 \/ th <= 0 THEN NullShown
    ELSE LET s == QSizeScaledKeep(Width(b), Height(b), tw, th)
         IN  Scaled(b, Max(s[1], 1), Max(s[2], 1))

(***************************************************************************)
(* The file system.  All paths lie in one directory; the sequence is the   *)
(* order sorted(os.listdir(directory), key=str.lower) gives them.          *)
(***************************************************************************)
AllPaths == <<"a.png", "c.png", "n.jpg">>
PathSet == {AllPaths[i] : i \in DOMAIN AllPaths}
\* save_image_as: format_map.get(ext, 'PNG').
FormatOfPath(p) == IF p = "n.jpg" THEN "JPEG" ELSE "PNG"
FileOf(fmt, img) == [fmt |-> fmt, img |-> img]
\* The content of a path that names no file.
Absent == FileOf("Absent", Null)
InitFiles ==
    [p \in PathSet |->
        CASE p = "a.png" -> FileOf("PNG", Picture("imgA"))
          [] p = "c.png" -> FileOf("PNG", Bad)
          [] OTHER -> Absent]

\* The sizes the scroll area takes (resizeEvent).
AreaSizes == {<<AreaLong, AreaShort>>, <<AreaShort, AreaLong>>}

REQUESTS_AVAILABLE == TRUE

VARIABLES
    files,                          \* path -> file content or Absent
    recent_files,                   \* self.recent_files, as a set
    pixmap,                         \* self.pixmap
    original_pixmap,                \* self.original_pixmap
    label_pixmap,                   \* self.image_label.pixmap()
    label_size,                     \* self.image_label.size()
    area_size,                      \* self.scroll_area.size()
    scale_factor,
    rotation_angle,
    image_modified_by_bg_removal,
    image_modified_by_crop,
    current_image_path,
    current_image_index,
    image_files_in_directory,
    remove_bg_api_key,
    is_cropping,
    crop_origin_point_on_label,
    current_crop_ratio,
    crop_rect,                      \* self.crop_overlay.crop_rect
    overlay_ratio,                  \* self.crop_overlay.ratio
    overlay_size,                   \* self.crop_overlay.size()
    overlay_visible,
    comparison_mode,
    crop_mode_checked,              \* self.crop_mode_action.isChecked()
    remove_bg_action,               \* enabled state of the QActions
    save_action,
    save_as_action,
    compare_action,
    image_actions,                  \* delete, copy, zoom, fit, rotate, crop mode
    nav_actions,                    \* prev, next, first, last
    apply_crop_action,
    bg_removal_worker,              \* index into workers of self.bg_removal_worker
    workers,                        \* the RemoveBgWorker threads started
    queue,                          \* queued signal deliveries for the UI thread
    app_state,                      \* "running", "closed", "exited", "crashed"
    crops,                          \* crops applied (bounded by MaxCrops)
    saves,                          \* files written (bounded by MaxSaves)
    op                              \* the handler that ran last and its outcome

vars == <<files, recent_files, pixmap, original_pixmap, label_pixmap, label_size,
          area_size, scale_factor, rotation_angle, image_modified_by_bg_removal,
          image_modified_by_crop, current_image_path, current_image_index,
          image_files_in_directory, remove_bg_api_key, is_cropping,
          crop_origin_point_on_label, current_crop_ratio, crop_rect, overlay_ratio,
          overlay_size, overlay_visible, comparison_mode, crop_mode_checked,
          remove_bg_action, save_action, save_as_action, compare_action,
          image_actions, nav_actions, apply_crop_action, bg_removal_worker,
          workers, queue, app_state, crops, saves, op>>

\* What a handler reports besides the state it leaves: its return value and
\* the observable effects of the calls it made.
NoWrite ==
    [path |-> None, fmt |-> None, prompted |-> FALSE, bg |-> FALSE, img |-> Null,
     sf |-> One]            \* scale_factor when the file was written
NoCrop == [applied |-> FALSE, sel_inside |-> FALSE, src |-> NullRect, bw |-> 0, bh |-> 0]
NoOutcome ==
    [ret |-> None,            \* value returned by the outermost method
     load_failed |-> FALSE,   \* a load_image call returned False
     loaded |-> None,         \* the file the last successful load_image read
     asked |-> None,          \* the answer to the last "Unsaved Changes" question
     wrote |-> NoWrite,       \* the file written by pixmap.save
     crop |-> NoCrop,         \* the rectangle apply_crop_from_selection computed
     raised |-> None,         \* exception raised out of the handler
     message |-> None]        \* dialog shown to the user

\* The viewer as one record: the state a method reads and the state it
\* leaves.  `out` collects what the running handler reports.
Self ==
    [files |-> files, recent_files |-> recent_files, pixmap |-> pixmap,
     original_pixmap |-> original_pixmap, label_pixmap |-> label_pixmap,
     label_size |-> label_size, area_size |-> area_size,
     scale_factor |-> scale_factor, rotation_angle |-> rotation_angle,
     image_modified_by_bg_removal |-> image_modified_by_bg_removal,
     image_modified_by_crop |-> image_modified_by_crop,
     current_image_path |-> current_image_path,
     current_image_index |-> current_image_index,
     image_files_in_directory |-> image_files_in_directory,
     remove_bg_api_key |-> remove_bg_api_key, is_cropping |-> is_cropping,
     crop_origin_point_on_label |-> crop_origin_point_on_label,
     current_crop_ratio |-> current_crop_ratio, crop_rect |-> crop_rect,
     overlay_ratio |-> overlay_ratio, overlay_size |-> overlay_size,
     overlay_visible |-> overlay_visible, comparison_mode |-> comparison_mode,
     crop_mode_checked |-> crop_mode_checked,
     remove_bg_action |-> remove_bg_action, save_action |-> save_action,
     save_as_action |-> save_as_action, compare_action |-> compare_action,
     image_actions |-> image_actions, nav_actions |-> nav_actions,
     apply_crop_action |-> apply_crop_action,
     bg_removal_worker |-> bg_removal_worker, workers |-> workers,
     queue |-> queue, app_state |-> app_state, crops |-> crops, saves |-> saves,
     out |-> NoOutcome]

\* The next state is the record the handler `name` returned.
Becomes(name, handled) ==
  \E r \in {handled} :
    /\ files' = r.files
    /\ recent_files' = r.recent_files
    /\ pixmap' = r.pixmap
    /\ original_pixmap' = r.original_pixmap
    /\ label_pixmap' = r.label_pixmap
    /\ label_size' = r.label_size
    /\ area_size' = r.area_size
    /\ scale_factor' = r.scale_factor
    /\ rotation_angle' = r.rotation_angle
    /\ image_modified_by_bg_removal' = r.image_modified_by_bg_removal
    /\ image_modified_by_crop' = r.image_modified_by_crop
    /\ current_image_path' = r.current_image_path
    /\ current_image_index' = r.current_image_index
    /\ image_files_in_directory' = r.image_files_in_directory
    /\ remove_bg_api_key' = r.remove_bg_api_key
    /\ is_cropping' = r.is_cropping
    /\ crop_origin_point_on_label' = r.crop_origin_point_on_label
    /\ current_crop_ratio' = r.current_crop_ratio
    /\ crop_rect' = r.crop_rect
    /\ overlay_ratio' = r.overlay_ratio
    /\ overlay_size' = r.overlay_size
    /\ overlay_visible' = r.overlay_visible
    /\ comparison_mode' = r.comparison_mode
    /\ crop_mode_checked' = r.crop_mode_checked
    /\ remove_bg_action' = r.remove_bg_action
    /\ save_action' = r.save_action
    /\ save_as_action' = r.save_as_action
    /\ compare_action' = r.compare_action
    /\ image_actions' = r.image_actions
    /\ nav_actions' = r.nav_actions
    /\ apply_crop_action' = r.apply_crop_action
    /\ bg_removal_worker' = r.bg_removal_worker
    /\ workers' = r.workers
    /\ queue' = r.queue
    /\ app_state' = r.app_state
    /\ crops' = r.crops
    /\ saves' = r.saves
    /\ op' = [name |-> name, out |-> r.out]

Ret(s, value) == [s EXCEPT !.out.ret = value]

\* Sequencing inside a method: Rest runs on the state a call returned.
Then(returned, Rest(_)) == CHOOSE r \in {Rest(v) : v \in {returned}} : TRUE

(***************************************************************************)
(* ImageViewer: display                                                    *)
(***************************************************************************)
HasUnsavedChanges(s) ==
    \/ s.rotation_angle # 0
    \/ s.image_modified_by_bg_removal
    \/ s.image_modified_by_crop

update_actions_state(s) ==
    LET has_image == ~IsNull(s.pixmap)
        has_multiple_images == Len(s.image_files_in_directory) > 1
    IN  [s EXCEPT
            !.save_action = has_image,
            !.save_as_action = has_image,
            !.image_actions = has_image,
            !.remove_bg_action =
                has_image /\ REQUESTS_AVAILABLE /\ s.remove_bg_api_key # "",
            !.compare_action = has_image /\ HasUnsavedChanges(s),
            !.nav_actions = has_image /\ has_multiple_images,
            !.apply_crop_action =
                has_image /\ s.is_cropping /\ ~RectIsNull(s.crop_rect)]

\* effective_scale of update_image_display for a rotated bitmap rw x rh.
EffectiveScale(rw, rh, sf) ==
    LET e1 == IF RatLess(RatMul(<<rw, 1>>, sf), <<min_dim, 1>>) /\ rw > 0
              THEN Rat(min_dim, rw) ELSE sf
    IN  IF RatLess(RatMul(<<rh, 1>>, sf), <<min_dim, 1>>) /\ rh > 0
        THEN RatMax(e1, Rat(min_dim, rh)) ELSE e1

\* The bitmap update_image_display puts in the image label for the base
\* bitmap b, rotation angle and scale factor sf.
RenderForDisplay(b, angle, sf) ==
    LET rotated_pixmap == Transformed(b, angle)
        rw == Width(rotated_pixmap)
        rh == Height(rotated_pixmap)
        effective_scale == EffectiveScale(rw, rh, sf)
        new_width == Max(min_dim, IntMul(rw, effective_scale))
        new_height == Max(min_dim, IntMul(rh, effective_scale))
    IN  PixmapScaledKeep(rotated_pixmap, new_width, new_height)

update_comparison_view(s) ==
    IF ~s.comparison_mode \/ IsNull(s.pixmap) THEN s
    ELSE IF s.label_pixmap = NullShown THEN s
    ELSE LET current_pixmap == s.label_pixmap
             original == PixmapScaledKeep(
                             Transformed(s.original_pixmap, s.rotation_angle),
                             current_pixmap.w, current_pixmap.h)
         IN  [s EXCEPT !.label_pixmap = original]

update_image_display(s) ==
    IF IsNull(s.pixmap) THEN [s EXCEPT !.label_pixmap = NullShown]
    ELSE LET scaled_pixmap ==
                 RenderForDisplay(s.pixmap, s.rotation_angle, s.scale_factor)
             shown == [s EXCEPT !.label_pixmap = scaled_pixmap,
                                !.label_size = <<scaled_pixmap.w, scaled_pixmap.h>>]
         IN  IF s.comparison_mode THEN update_comparison_view(shown) ELSE shown

\* A fit_to_window that fits the bitmap as if it were not rotated.
FitToWindowUntransposed(s) ==
    IF IsNull(s.pixmap) THEN s
    ELSE LET w == Width(s.pixmap)
             h == Height(s.pixmap)
         IN  IF w = 0 \/ h = 0 THEN s
             ELSE LET w_ratio == Rat(s.area_size[1], w)
                      h_ratio == Rat(s.area_size[2], h)
                  IN  update_image_display(
                          [s EXCEPT !.scale_factor = RatMin(w_ratio, h_ratio)])

fit_to_window(s) ==
    IF IsNull(s.pixmap) THEN s
    ELSE LET transposed == s.rotation_angle % 180 # 0
             w == IF transposed THEN Height(s.pixmap) ELSE Width(s.pixmap)
             h == IF transposed THEN Width(s.pixmap) ELSE Height(s.pixmap)
         IN  IF w = 0 \/ h = 0 THEN s
             ELSE LET w_ratio == Rat(s.area_size[1], w)
                      h_ratio == Rat(s.area_size[2], h)
                  IN  update_image_display(
                          [s EXCEPT !.scale_factor = RatMin(w_ratio, h_ratio)])

(***************************************************************************)
(* ImageViewer: loading and the directory listing                          *)
(***************************************************************************)
Exists(s, path) == path \in PathSet /\ s.files[path] # Absent

\* The supported image files of the directory, sorted case-insensitively.
RECURSIVE Listing(_, _)
Listing(fs, i) ==
    IF i > Len(AllPaths) THEN <<>>
    ELSE IF fs[AllPaths[i]] # Absent
         THEN <<AllPaths[i]>> \o Listing(fs, i + 1)
         ELSE Listing(fs, i + 1)

\* list.index(x) as a 0-based index, -1 when absent.
RECURSIVE IndexFrom(_, _, _)
IndexFrom(seq, x, i) ==
    IF i > Len(seq) THEN -1
    ELSE IF seq[i] = x THEN i - 1 ELSE IndexFrom(seq, x, i + 1)
IndexOf(seq, x) == IndexFrom(seq, x, 1)

load_directory_images(s, current_file_path) ==
    IF current_file_path = None \/ ~Exists(s, current_file_path)
    THEN update_actions_state(
             [s EXCEPT !.image_files_in_directory = <<>>,
                       !.current_image_index = -1])
    ELSE LET image_list == Listing(s.files, 1)
         IN  update_actions_state(
                 [s EXCEPT !.image_files_in_directory = image_list,
                           !.current_image_index = IndexOf(image_list, current_file_path)])

_add_to_recent_files(s, file_path) ==
    [s EXCEPT !.recent_files = s.recent_files \cup {file_path}]

\* QPixmap decoded from the file; null when the bytes are not an image.
Decode(s, path) == IF s.files[path].img = Bad THEN Null ELSE s.files[path].img

\* A load_image that keeps the rotation of the image shown before.
LoadImageKeepingRotation(s, file_path) ==
    IF ~Exists(s, file_path)
    THEN [s EXCEPT !.out.ret = "False", !.out.load_failed = TRUE]
    ELSE LET new_pixmap == Decode(s, file_path)
         IN  IF IsNull(new_pixmap)
             THEN [s EXCEPT !.out.ret = "False", !.out.load_failed = TRUE]
             ELSE LET s1 == _add_to_recent_files(
                                [s EXCEPT !.pixmap = new_pixmap,
                                          !.original_pixmap = new_pixmap,
                                          !.current_image_path = file_path],
                                file_path)
                      s2 == [s1 EXCEPT !.scale_factor = One,
                                       !.image_modified_by_bg_removal = FALSE,
                                       !.image_modified_by_crop = FALSE,
                                       !.out.loaded = file_path]
                      s3 == load_directory_images(fit_to_window(s2), file_path)
                  IN  Ret(update_actions_state(s3), "True")

load_image(s, file_path) ==
    IF ~Exists(s, file_path)
    THEN [s EXCEPT !.out.ret = "False", !.out.load_failed = TRUE]
    ELSE LET new_pixmap == Decode(s, file_path)
         IN  IF IsNull(new_pixmap)
             THEN [s EXCEPT !.out.ret = "False", !.out.load_failed = TRUE]
             ELSE LET s1 == _add_to_recent_files(
                                [s EXCEPT !.pixmap = new_pixmap,
                                          !.original_pixmap = new_pixmap,
                                          !.current_image_path = file_path],
                                file_path)
                      s2 == [s1 EXCEPT !.scale_factor = One,
                                       !.rotation_angle = 0,
                                       !.image_modified_by_bg_removal = FALSE,
                                       !.image_modified_by_crop = FALSE,
                                       !.out.loaded = file_path]
                      s3 == load_directory_images(fit_to_window(s2), file_path)
                  IN  Ret(update_actions_state(s3), "True")

(***************************************************************************)
(* ImageViewer: saving                                                     *)
(* env.name is the file the save dialog returns ("" when cancelled) and    *)
(* env.ok whether QPixmap.save succeeds.                                   *)
(***************************************************************************)
\* A save that writes the base pixmap as it is.
PixmapToSaveUnrotated(s) == s.pixmap

\* pixmap_to_save of save_image and save_image_as.
PixmapToSave(s) ==
    IF s.rotation_angle # 0 THEN Transformed(s.pixmap, s.rotation_angle) ELSE s.pixmap

\* A save that writes the bitmap at the size it is displayed.
WrittenAsDisplayed(s, path, fmt, prompted) ==
    LET b == PixmapToSave(s)
        shown == [b EXCEPT !.cw = Max(min_dim, IntMul(b.cw, s.scale_factor)),
                           !.ch = Max(min_dim, IntMul(b.ch, s.scale_factor))]
    IN  [s EXCEPT !.files[path] = FileOf(fmt, shown),
                  !.saves = s.saves + 1,
                  !.out.wrote = [path |-> path, fmt |-> fmt, prompted |-> prompted,
                                 bg |-> s.image_modified_by_bg_removal,
                                 img |-> shown, sf |-> s.scale_factor]]

\* QPixmap.save(path, format) succeeded.
Written(s, path, fmt, prompted) ==
    [s EXCEPT !.files[path] = FileOf(fmt, PixmapToSave(s)),
              !.saves = s.saves + 1,
              !.out.wrote = [path |-> path, fmt |-> fmt, prompted |-> prompted,
                             bg |-> s.image_modified_by_bg_removal,
                             img |-> PixmapToSave(s), sf |-> s.scale_factor]]

save_image_as(s, env) ==
    IF IsNull(s.pixmap) THEN Ret(s, "False")
    ELSE LET file_name == env.name
         IN  IF file_name = "" THEN Ret(s, "False")
             ELSE LET file_format == FormatOfPath(file_name)
                  IN  IF env.ok
                      THEN Ret(load_image(Written(s, file_name, file_format, TRUE),
                                          file_name), "True")
                      ELSE Ret([s EXCEPT !.out.message = "Save Error"], "False")

\* A save_image that asks for a name only when the image has none.
SaveNeedsPromptWithoutPath(s) == s.current_image_path = None

\* True when save_image hands over to save_image_as.
SaveNeedsPrompt(s) == s.current_image_path = None \/ s.image_modified_by_bg_removal

\* A save_image that resets the rotation before it knows the file was written.
SaveImageResettingBeforeWrite(s, env) ==
    IF IsNull(s.pixmap) THEN Ret(s, "False")
    ELSE IF SaveNeedsPrompt(s) THEN save_image_as(s, env)
    ELSE LET file_to_save == s.current_image_path
             r0 == [s EXCEPT !.rotation_angle = 0, !.image_modified_by_crop = FALSE]
         IN  IF env.ok
             THEN Ret(load_image(
                          [Written(s, file_to_save, FormatOfPath(file_to_save), FALSE)
                           EXCEPT !.rotation_angle = 0,
                                  !.image_modified_by_crop = FALSE],
                          file_to_save), "True")
             ELSE Ret([r0 EXCEPT !.out.message = "Save Error"], "False")

save_image(s, env) ==
    IF IsNull(s.pixmap) THEN Ret(s, "False")
    ELSE IF SaveNeedsPrompt(s) THEN save_image_as(s, env)
    ELSE LET file_to_save == s.current_image_path
         IN  IF env.ok
             THEN LET w == Written(s, file_to_save, FormatOfPath(file_to_save), FALSE)
                      r == [w EXCEPT !.rotation_angle = 0,
                                     !.image_modified_by_crop = FALSE]
                  IN  Ret(load_image(r, file_to_save), "True")
             ELSE Ret([s EXCEPT !.out.message = "Save Error"], "False")

(***************************************************************************)
(* ImageViewer: navigation                                                 *)
(* env.reply answers the "Unsaved Changes" question.                       *)
(***************************************************************************)
\* The loop of _navigate_image: try up to `left` files from next_index on.
RECURSIVE TryLoad(_, _, _, _, _)
TryLoad(s, next_index, direction, num_files, left) ==
    IF left = 0 THEN Ret(s, "False")
    ELSE IF next_index + 1 > Len(s.image_files_in_directory)
         THEN Ret([s EXCEPT !.out.raised = "IndexError"], "False")
    ELSE LET file_to_try == s.image_files_in_directory[next_index + 1]
         IN  Then(load_image(s, file_to_try), LAMBDA r :
                 IF r.out.ret = "True" THEN r
                 ELSE TryLoad(r, (next_index + direction) % num_files, direction,
                              num_files, left - 1))

_navigate_image(s, direction, env) ==
    LET num_files == Len(s.image_files_in_directory)
    IN  IF num_files <= 1 THEN Ret(s, "False")
        ELSE LET asked == HasUnsavedChanges(s)
                 q == IF asked THEN [s EXCEPT !.out.asked = env.reply] ELSE s
             IN  Then(IF asked /\ env.reply = "Save" THEN save_image(q, env) ELSE q,
                      LAMBDA saved :
                 IF asked /\ env.reply = "Save" /\ saved.out.ret # "True"
                    THEN Ret(saved, "False")
                 ELSE IF asked /\ env.reply = "Cancel" THEN Ret(q, "False")
                 ELSE TryLoad(saved,
                              (saved.current_image_index + direction) % num_files,
                              direction, num_files, num_files))

go_to_image(s, index) ==
    IF s.image_files_in_directory = <<>> THEN s
    ELSE LET n == Len(s.image_files_in_directory)
             i == IF index < 0 THEN n + index ELSE index
         IN  IF 0 <= i /\ i < n
             THEN load_image(s, s.image_files_in_directory[i + 1])
             ELSE s

open_image_dialog(s, file_name) ==
    IF file_name = "" THEN s
    ELSE LET r == load_image(s, file_name)
         IN  IF r.out.ret = "True" THEN r
             ELSE update_actions_state(
                      [r EXCEPT !.current_image_path = None,
                                !.current_image_index = -1,
                                !.image_files_in_directory = <<>>])

_open_recent_file(s, file_path) ==
    IF Exists(s, file_path) THEN load_image(s, file_path)
    ELSE [s EXCEPT !.recent_files = s.recent_files \ {file_path},
                   !.out.message = "File Not Found"]

\* env.confirm answers "Confirm Delete", env.reply and env.reply2 the
\* questions of the two navigation attempts, env.del_ok whether the file
\* could be removed.
delete_current_image(s, env) ==
    IF s.current_image_path = None \/ ~Exists(s, s.current_image_path) THEN s
    ELSE IF ~env.confirm THEN s
    ELSE LET path_to_delete == s.current_image_path
         IN  Then(_navigate_image(s, 1, env), LAMBDA n1 :
             Then(IF n1.out.ret = "True" THEN n1
                  ELSE _navigate_image(n1, -1, [env EXCEPT !.reply = env.reply2]),
                  LAMBDA n2 :
             IF n2.out.ret = "True"
             THEN IF env.del_ok
                  THEN load_directory_images(
                           [n2 EXCEPT !.files[path_to_delete] = Absent],
                           n2.current_image_path)
                  ELSE load_image([n2 EXCEPT !.out.message = "Delete Error"],
                                  path_to_delete)
             ELSE IF env.del_ok
                  THEN update_actions_state(update_image_display(
                           [n2 EXCEPT !.files[path_to_delete] = Absent,
                                      !.pixmap = Null,
                                      !.current_image_path = None,
                                      !.image_files_in_directory = <<>>]))
                  ELSE [n2 EXCEPT !.out.message = "Delete Error"]))

(***************************************************************************)
(* ImageViewer: zoom and rotation                                          *)
(***************************************************************************)
scale_image(s, factor) ==
    update_image_display([s EXCEPT !.scale_factor = RatMul(s.scale_factor, factor)])
zoom_in(s) == IF ~IsNull(s.pixmap) THEN scale_image(s, <<5, 4>>) ELSE s
zoom_out(s) == IF ~IsNull(s.pixmap) THEN scale_image(s, <<4, 5>>) ELSE s
actual_size(s) == update_image_display([s EXCEPT !.scale_factor = One])
\* A rotate_left that does not reduce the angle modulo 360.
RotateLeftUnreduced(s) ==
    update_image_display([s EXCEPT !.rotation_angle = s.rotation_angle - 90])
rotate_left(s) ==
    update_image_display([s EXCEPT !.rotation_angle = (s.rotation_angle - 90) % 360])
\* A rotate_right that turns the base pixmap itself.
RotateRightTurningPixmap(s) ==
    update_image_display([s EXCEPT !.pixmap = Transformed(s.pixmap, 90)])
\* A rotate_right that does not reduce the angle modulo 360.
RotateRightUnreduced(s) ==
    update_image_display([s EXCEPT !.rotation_angle = s.rotation_angle + 90])
rotate_right(s) ==
    update_image_display([s EXCEPT !.rotation_angle = (s.rotation_angle + 90) % 360])

resizeEvent(s, size) ==
    LET r == fit_to_window([s EXCEPT !.area_size = size])
    IN  IF r.is_cropping THEN [r EXCEPT !.overlay_size = r.label_size] ELSE r

(***************************************************************************)
(* Background removal.  A worker is [image_path, shown, pc, got]: shown is *)
(* the base pixmap the viewer held when it started the worker (a record of *)
(* the past, the worker itself reads the file), pc is "run" until          *)
(* RemoveBgWorker.run has emitted result or error, "emitted" until it has  *)
(* emitted finished, then "finished".  The signals are emitted in the      *)
(* worker thread and received by slots of the viewer, which lives in the   *)
(* UI thread: every emission is queued and handled by the UI event loop    *)
(* in order.                                                               *)
(***************************************************************************)
Signal(sig, w, data) == [sig |-> sig, w |-> w, data |-> data]

\* env.abort: whether releasing the last reference to a QThread that is
\* still running ends the process (Qt: "QThread: Destroyed while thread is
\* still running") or the old thread lives on.
process_remove_background(s, env) ==
    IF IsNull(s.pixmap) \/ ~REQUESTS_AVAILABLE THEN s
    ELSE IF s.remove_bg_api_key = ""
         THEN [s EXCEPT !.out.message = "API Key Required"]
    ELSE LET busy == [s EXCEPT !.remove_bg_action = FALSE,
                               !.save_action = FALSE,
                               !.save_as_action = FALSE]
             old_running == /\ s.bg_removal_worker # 0
                            /\ s.workers[s.bg_removal_worker].pc # "finished"
         IN  IF old_running /\ env.abort
             THEN [busy EXCEPT !.app_state = "crashed"]
             ELSE [busy EXCEPT
                      !.workers = Append(s.workers,
                                         [image_path |-> s.current_image_path,
                                          shown |-> s.pixmap,
                                          pc |-> "run", got |-> <<>>]),
                      !.bg_removal_worker = Len(s.workers) + 1,
                      !.out.ret = "started"]

\* A handler that resets the rotation before it decodes the response.
ResultHandlerResettingRotation(s, image_data) ==
    IF image_data # Bad
    THEN update_image_display(
             [s EXCEPT !.pixmap = image_data,
                       !.image_modified_by_bg_removal = TRUE,
                       !.rotation_angle = 0])
    ELSE [s EXCEPT !.rotation_angle = 0, !.out.raised = "ValueError"]

\* A handler that keeps the pending rotation for the new bitmap.
ResultHandlerKeepingRotation(s, image_data) ==
    IF image_data # Bad
    THEN update_image_display(
             [s EXCEPT !.pixmap = image_data,
                       !.image_modified_by_bg_removal = TRUE])
    ELSE [s EXCEPT !.out.raised = "ValueError"]

_handle_bg_removal_result(s, image_data) ==
    IF image_data # Bad
    THEN update_image_display(
             [s EXCEPT !.pixmap = image_data,
                       !.image_modified_by_bg_removal = TRUE,
                       !.rotation_angle = 0])
    ELSE [s EXCEPT !.out.raised = "ValueError"]

_handle_bg_removal_error(s, error_msg) ==
    [s EXCEPT !.out.message = "API Error"]

\* A finished handler that hides the progress bar and enables nothing.
FinishedHandlerEnablingNothing(s) == s

_handle_bg_removal_finished(s) ==
    update_actions_state(
        [s EXCEPT !.remove_bg_action = TRUE,
                  !.save_action = TRUE,
                  !.save_as_action = TRUE])

_save_api_key(s, api_key) ==
    update_actions_state([s EXCEPT !.remove_bg_api_key = api_key])

(***************************************************************************)
(* Cropping                                                                *)
(***************************************************************************)
\* CropOverlay.set_crop_rect
set_crop_rect(s, rect) == [s EXCEPT !.crop_rect = Normalized(rect)]

\* QRect.center() and the rectangle of width w and height h moved to it.
CenterX(r) == Trunc(2 * r.x + r.w - 1, 2)
CenterY(r) == Trunc(2 * r.y + r.h - 1, 2)
RectCentered(w, h, cx, cy) ==
    Rect(cx - Trunc(w - 1, 2), cy - Trunc(h - 1, 2), w, h)

\* The rectangle CropOverlay._constrain_to_ratio computes for the current
\* one: same width, height int(width * h / w), same centre, clipped to the
\* overlay.
bounded_rect(s) ==
    LET w == s.overlay_ratio[1]
        h == s.overlay_ratio[2]
        current_width == s.crop_rect.w
        new_height == Trunc(current_width * h, w)
        new_rect == RectCentered(current_width, new_height,
                                 CenterX(s.crop_rect), CenterY(s.crop_rect))
    IN  Intersected(new_rect, Rect(0, 0, s.overlay_size[1], s.overlay_size[2]))

\* CropOverlay._constrain_to_ratio
_constrain_to_ratio(s) ==
    IF s.overlay_ratio = NoRatio \/ RectIsNull(s.crop_rect) THEN s
    ELSE IF ~RectIsNull(bounded_rect(s))
         THEN [s EXCEPT !.crop_rect = bounded_rect(s)]
         ELSE s

\* CropOverlay.set_ratio
set_ratio(s, ratio) ==
    LET r == [s EXCEPT !.overlay_ratio = ratio]
    IN  IF ratio # NoRatio /\ ~RectIsNull(r.crop_rect) THEN _constrain_to_ratio(r) ELSE r

toggle_crop_mode(s, checked) ==
    LET r == [s EXCEPT !.is_cropping = checked]
    IN  IF checked
        THEN update_actions_state(
                 [set_crop_rect(
                      set_ratio([r EXCEPT !.overlay_size = r.label_size,
                                          !.overlay_visible = TRUE],
                                r.current_crop_ratio),
                      NullRect)
                  EXCEPT !.apply_crop_action = FALSE])
        ELSE update_actions_state(
                 [r EXCEPT !.overlay_visible = FALSE,
                           !.apply_crop_action = FALSE])

set_crop_ratio(s, ratio) ==
    set_ratio([s EXCEPT !.current_crop_ratio = ratio], ratio)

\* eventFilter on the image label: press, move and release of the left
\* button while cropping.  A QPoint is false when it is (0, 0).
eventFilterPress(s, pos) ==
    [set_crop_rect([s EXCEPT !.crop_origin_point_on_label = pos], RectAtPoint(pos))
     EXCEPT !.overlay_visible = TRUE, !.apply_crop_action = FALSE]

eventFilterMove(s, current_pos) ==
    LET free == Normalized(RectOfPoints(s.crop_origin_point_on_label, current_pos))
        rect == IF s.current_crop_ratio # NoRatio
                THEN [free EXCEPT !.h = Trunc(free.w * s.current_crop_ratio[2],
                                              s.current_crop_ratio[1])]
                ELSE free
    IN  [set_crop_rect(s, rect)
         EXCEPT !.apply_crop_action = rect.w > 10 /\ rect.h > 10]

eventFilterRelease(s) ==
    [s EXCEPT !.crop_origin_point_on_label = NoPoint,
              !.apply_crop_action = ~RectIsNull(s.crop_rect)]

\* The rectangle in base-image coordinates that apply_crop_from_selection
\* computes for the selection crop_rect on a label of size label shown with
\* the bitmap shown (w x h), for a base bitmap of width pixmap_w.
MapToOriginal(rect, label, shown_w, shown_h, pixmap_w, sf) ==
    LET offset_x == (label[1] - shown_w) \div 2
        offset_y == (label[2] - shown_h) \div 2
        selection_on_pixmap == Translated(rect, -offset_x, -offset_y)
        \* scale = pixmap_w / (shown_w / sf)
        scale == Rat(pixmap_w * sf[1], shown_w * sf[2])
    IN  Rect(IntMul(selection_on_pixmap.x, scale),
             IntMul(selection_on_pixmap.y, scale),
             IntMul(selection_on_pixmap.w, scale),
             IntMul(selection_on_pixmap.h, scale))

\* The selection, taken relative to the shown bitmap, lies inside it.
SelectionInsideShown(rect, label, shown_w, shown_h) ==
    RectInside(Translated(rect, -((label[1] - shown_w) \div 2),
                                -((label[2] - shown_h) \div 2)),
               shown_w, shown_h)

apply_crop_from_selection(s) ==
    IF IsNull(s.pixmap) THEN s
    ELSE IF \/ RectIsNull(s.crop_rect)
            \/ s.crop_rect.w < MinApplySize
            \/ s.crop_rect.h < MinApplySize
         THEN s
    ELSE IF s.label_pixmap = NullShown THEN s
    ELSE LET crop_rect_on_original ==
                 MapToOriginal(s.crop_rect, s.label_size, s.label_pixmap.w,
                               s.label_pixmap.h, Width(s.pixmap), s.scale_factor)
             cropped_pixmap == PixmapCopy(s.pixmap, crop_rect_on_original)
             seen == [applied |-> ~IsNull(cropped_pixmap),
                      sel_inside |-> SelectionInsideShown(
                                         s.crop_rect, s.label_size,
                                         s.label_pixmap.w, s.label_pixmap.h),
                      src |-> crop_rect_on_original,
                      bw |-> Width(s.pixmap), bh |-> Height(s.pixmap)]
         IN  IF ~IsNull(cropped_pixmap)
             THEN LET r == toggle_crop_mode(
                               [s EXCEPT !.pixmap = cropped_pixmap,
                                         !.image_modified_by_crop = TRUE,
                                         !.crops = s.crops + 1,
                                         !.out.crop = seen],
                               FALSE)
                  IN  update_actions_state(
                          fit_to_window([r EXCEPT !.crop_mode_checked = FALSE]))
             ELSE [s EXCEPT !.out.crop = seen]

(***************************************************************************)
(* Comparison mode, closing                                                *)
(***************************************************************************)
toggle_comparison_mode(s, checked) ==
    LET r == [s EXCEPT !.comparison_mode = checked]
    IN  update_actions_state(IF checked THEN update_comparison_view(r) ELSE r)

\* env.reply answers "Save before closing?".  An accepted close hides the
\* window and, it being the last one, posts the application's quit event.
closeEvent(s, env) ==
    LET asked == HasUnsavedChanges(s) /\ s.current_image_path # None
        saved == IF asked /\ env.reply = "Save" THEN save_image(s, env) ELSE s
    IN  IF asked /\ env.reply = "Save" /\ saved.out.ret # "True"
           THEN Ret(saved, "ignored")
        ELSE IF asked /\ env.reply = "Cancel" THEN Ret(s, "ignored")
        ELSE Ret([saved EXCEPT !.app_state = "closed",
                               !.queue = Append(saved.queue,
                                                Signal("quit", 0, Null))],
                 "accepted")

(***************************************************************************)
(* The state after ImageViewer.__init__ with no image on the command line. *)
(***************************************************************************)
Init ==
    /\ files = InitFiles
    /\ recent_files = PathSet
    /\ pixmap = Null
    /\ original_pixmap = Null
    /\ label_pixmap = NullShown
    /\ label_size = <<0, 0>>
    /\ area_size = <<AreaLong, AreaShort>>
    /\ scale_factor = One
    /\ rotation_angle = 0
    /\ image_modified_by_bg_removal = FALSE
    /\ image_modified_by_crop = FALSE
    /\ current_image_path = None
    /\ current_image_index = -1
    /\ image_files_in_directory = <<>>
    /\ remove_bg_api_key = ""
    /\ is_cropping = FALSE
    /\ crop_origin_point_on_label = NoPoint
    /\ current_crop_ratio = NoRatio
    /\ crop_rect = NullRect
    /\ overlay_ratio = NoRatio
    /\ overlay_size = <<0, 0>>
    /\ overlay_visible = FALSE
    /\ comparison_mode = FALSE
    /\ crop_mode_checked = FALSE
    /\ remove_bg_action = FALSE
    /\ save_action = FALSE
    /\ save_as_action = FALSE
    /\ compare_action = FALSE
    /\ image_actions = FALSE
    /\ nav_actions = FALSE
    /\ apply_crop_action = FALSE
    /\ bg_removal_worker = 0
    /\ workers = <<>>
    /\ queue = <<>>
    /\ app_state = "running"
    /\ crops = 0
    /\ saves = 0
    /\ op = [name |-> "__init__", out |-> NoOutcome]

(***************************************************************************)
(* Sessions.  The mouse can draw very many selections; specifications that *)
(* are about what follows a selection start where a session has drawn one: *)
(* a.png opened, the crop mode switched on, the left button pressed at p   *)
(* and the mouse moved to q.  The state is the one the handlers compute.   *)
(***************************************************************************)
\* The viewer of Init as a record.
Fresh ==
    [files |-> InitFiles,
     recent_files |-> PathSet,
     pixmap |-> Null,
     original_pixmap |-> Null,
     label_pixmap |-> NullShown,
     label_size |-> <<0, 0>>,
     area_size |-> <<AreaLong, AreaShort>>,
     scale_factor |-> One,
     rotation_angle |-> 0,
     image_modified_by_bg_removal |-> FALSE,
     image_modified_by_crop |-> FALSE,
     current_image_path |-> None,
     current_image_index |-> -1,
     image_files_in_directory |-> <<>>,
     remove_bg_api_key |-> "",
     is_cropping |-> FALSE,
     crop_origin_point_on_label |-> NoPoint,
     current_crop_ratio |-> NoRatio,
     crop_rect |-> NullRect,
     overlay_ratio |-> NoRatio,
     overlay_size |-> <<0, 0>>,
     overlay_visible |-> FALSE,
     comparison_mode |-> FALSE,
     crop_mode_checked |-> FALSE,
     remove_bg_action |-> FALSE,
     save_action |-> FALSE,
     save_as_action |-> FALSE,
     compare_action |-> FALSE,
     image_actions |-> FALSE,
     nav_actions |-> FALSE,
     apply_crop_action |-> FALSE,
     bg_removal_worker |-> 0,
     workers |-> <<>>,
     queue |-> <<>>,
     app_state |-> "running",
     crops |-> 0,
     saves |-> 0,
     out |-> NoOutcome]

\* The state is the record the handler `name` returned.
Starts(name, handled) ==
  \E r \in {handled} :
    /\ files = r.files
    /\ recent_files = r.recent_files
    /\ pixmap = r.pixmap
    /\ original_pixmap = r.original_pixmap
    /\ label_pixmap = r.label_pixmap
    /\ label_size = r.label_size
    /\ area_size = r.area_size
    /\ scale_factor = r.scale_factor
    /\ rotation_angle = r.rotation_angle
    /\ image_modified_by_bg_removal = r.image_modified_by_bg_removal
    /\ image_modified_by_crop = r.image_modified_by_crop
    /\ current_image_path = r.current_image_path
    /\ current_image_index = r.current_image_index
    /\ image_files_in_directory = r.image_files_in_directory
    /\ remove_bg_api_key = r.remove_bg_api_key
    /\ is_cropping = r.is_cropping
    /\ crop_origin_point_on_label = r.crop_origin_point_on_label
    /\ current_crop_ratio = r.current_crop_ratio
    /\ crop_rect = r.crop_rect
    /\ overlay_ratio = r.overlay_ratio
    /\ overlay_size = r.overlay_size
    /\ overlay_visible = r.overlay_visible
    /\ comparison_mode = r.comparison_mode
    /\ crop_mode_checked = r.crop_mode_checked
    /\ remove_bg_action = r.remove_bg_action
    /\ save_action = r.save_action
    /\ save_as_action = r.save_as_action
    /\ compare_action = r.compare_action
    /\ image_actions = r.image_actions
    /\ nav_actions = r.nav_actions
    /\ apply_crop_action = r.apply_crop_action
    /\ bg_removal_worker = r.bg_removal_worker
    /\ workers = r.workers
    /\ queue = r.queue
    /\ app_state = r.app_state
    /\ crops = r.crops
    /\ saves = r.saves
    /\ op = [name |-> name, out |-> r.out]

\* The state a handler finds after the handler before it has returned.
After(r) == [r EXCEPT !.out = NoOutcome]

\* Press and move positions on the 40x20 label that shows a.png.
Drags == {<<<<0, ImgShort \div 2>>, <<ImgLong \div 2, 2 * ImgShort - 1>>>>,
          <<<<ImgLong \div 2, 0>>, <<2 * ImgLong - 1, 2 * ImgShort - 1>>>>}

DragSession(p, q) ==
    Then(open_image_dialog(Fresh, "a.png"), LAMBDA opened :
    Then(toggle_crop_mode([After(opened) EXCEPT !.crop_mode_checked = TRUE], TRUE),
         LAMBDA cropping :
    Then(eventFilterPress(After(cropping), p), LAMBDA pressed :
    eventFilterMove(After(pressed), q))))

InitDragged ==
    \E d \in Drags : Starts("eventFilter.move", DragSession(d[1], d[2]))

\* After construction, or after a selection has been drawn.
InitFreshOrDragged == Init \/ InitDragged

\* Pictures of other sizes in scroll areas of other sizes: every size up to
\* MaxSide x MaxSide, a very wide picture, and the sizes of the worked
\* examples (100x200 and 100x100 in a 300x300 or 200x200 area).
PictureSizes ==
    ((1..MaxSide) \X (1..MaxSide)) \cup {<<50, 1>>, <<100, 200>>, <<100, 100>>}
ContainerSizes == AreaSizes \cup {<<300, 300>>, <<200, 200>>}

\* a.png holds a picture of the given size and is opened in a scroll area
\* of the given size.
SizedSession(size, area) ==
    open_image_dialog(
        [Fresh EXCEPT !.files["a.png"] = FileOf("PNG", PictureOfSize(size[1], size[2])),
                      !.area_size = area],
        "a.png")

InitSized ==
    \E size \in PictureSizes, area \in ContainerSizes :
        Starts("open_image_dialog", SizedSession(size, area))

\* The same with a selection drawn on the label: crop mode switched on, the
\* left button pressed at p inside the label and the mouse moved to q.
CropSizes == {<<100, 100>>, <<100, 200>>}
SizedDrags == {<<<<60, 60>>, <<99, 99>>>>,
               <<<<10, 10>>, <<29, 24>>>>,
               <<<<5, 20>>, <<25, 8>>>>}
SizedDragSession(size, area, p, q) ==
    Then(SizedSession(size, area), LAMBDA opened :
    Then(toggle_crop_mode([After(opened) EXCEPT !.crop_mode_checked = TRUE], TRUE),
         LAMBDA cropping :
    Then(eventFilterPress(After(cropping), p), LAMBDA pressed :
    eventFilterMove(After(pressed), q))))

InitSizedDragged ==
    \E size \in CropSizes, area \in ContainerSizes, d \in SizedDrags :
        /\ d[1][1] < SizedSession(size, area).label_size[1]
        /\ d[1][2] < SizedSession(size, area).label_size[2]
        /\ Starts("eventFilter.move", SizedDragSession(size, area, d[1], d[2]))

\* What RemoveBgWorker.run may come to.
Outcomes == {"image", "garbage", "error"}

(***************************************************************************)
(* What the user and the environment may answer.                           *)
(***************************************************************************)
Replies == {"Save", "Discard", "Cancel"}
NoEnv == [name |-> "", ok |-> FALSE, reply |-> "Cancel", reply2 |-> "Cancel",
          confirm |-> FALSE, del_ok |-> FALSE, abort |-> FALSE]
\* Answers to a save: the dialog's file name and whether the write succeeds
\* (a write is possible while the model's budget of writes lasts).
SaveEnvs ==
    {[NoEnv EXCEPT !.name = n, !.ok = k] :
        n \in PathSet \cup {""}, k \in {b \in BOOLEAN : b => saves < MaxSaves}}
\* Answers to "Unsaved Changes": asked only when there are changes, and
\* followed by a save only when the answer is Save.
PromptEnvs ==
    IF HasUnsavedChanges(Self)
    THEN {[e EXCEPT !.reply = "Save"] : e \in SaveEnvs}
            \cup {[NoEnv EXCEPT !.reply = r] : r \in Replies \ {"Save"}}
    ELSE {NoEnv}

Running == app_state = "running"
\* Positions of the mouse on the image label.
MousePoints ==
    {<<x, y>> : x \in {0, label_size[1] \div 4, label_size[1] - 1},
                y \in {0, label_size[2] \div 4, label_size[2] - 1}}
Ratios == {NoRatio, <<4, 3>>}
\* What the user types into ApiKeyDialog.
ApiKeys == {"k"}
ScaleInBounds(q) == q[1] <= MaxScaleTerm /\ q[2] <= MaxScaleTerm

(***************************************************************************)
(* Actions: one per handler the UI event loop runs.                        *)
(***************************************************************************)
OpenImageDialog ==
    /\ Running
    /\ \E file_name \in {p \in PathSet : files[p] # Absent} :
          Becomes("open_image_dialog", open_image_dialog(Self, file_name))

OpenRecentFile ==
    /\ Running
    /\ \E file_path \in recent_files :
          Becomes("_open_recent_file", _open_recent_file(Self, file_path))

SaveImage ==
    /\ Running /\ save_action
    /\ \E env \in SaveEnvs : Becomes("save_image", save_image(Self, env))

SaveImageAs ==
    /\ Running /\ save_as_action
    /\ \E env \in SaveEnvs : Becomes("save_image_as", save_image_as(Self, env))

NextImage ==
    /\ Running /\ nav_actions
    /\ \E env \in PromptEnvs :
          Becomes("next_image_manual", _navigate_image(Self, 1, env))

PrevImage ==
    /\ Running /\ nav_actions
    /\ \E env \in PromptEnvs :
          Becomes("prev_image_manual", _navigate_image(Self, -1, env))

GoToFirst ==
    /\ Running /\ nav_actions
    /\ Becomes("go_to_image", go_to_image(Self, 0))

GoToLast ==
    /\ Running /\ nav_actions
    /\ Becomes("go_to_image", go_to_image(Self, -1))

DeleteCurrentImage ==
    /\ Running /\ image_actions
    /\ \E env \in PromptEnvs, d \in BOOLEAN,
          r2 \in IF HasUnsavedChanges(Self) THEN Replies ELSE {"Cancel"} :
          Becomes("delete_current_image",
                  delete_current_image(
                      Self, [env EXCEPT !.reply2 = r2, !.confirm = TRUE, !.del_ok = d]))

ZoomIn ==
    /\ Running /\ image_actions
    /\ ScaleInBounds(RatMul(scale_factor, <<5, 4>>))
    /\ Becomes("zoom_in", zoom_in(Self))

ZoomOut ==
    /\ Running /\ image_actions
    /\ ScaleInBounds(RatMul(scale_factor, <<4, 5>>))
    /\ Becomes("zoom_out", zoom_out(Self))

FitToWindow ==
    /\ Running /\ image_actions
    /\ Becomes("fit_to_window", fit_to_window(Self))

ActualSize ==
    /\ Running /\ image_actions
    /\ Becomes("actual_size", actual_size(Self))

RotateLeft ==
    /\ Running /\ image_actions
    /\ Becomes("rotate_left", rotate_left(Self))

RotateRight ==
    /\ Running /\ image_actions
    /\ Becomes("rotate_right", rotate_right(Self))

ResizeWindow ==
    /\ Running
    /\ \E size \in AreaSizes \ {area_size} :
          Becomes("resizeEvent", resizeEvent(Self, size))

SetApiKey ==
    /\ Running
    /\ \E key \in ApiKeys :
          Becomes("show_set_api_key_dialog", _save_api_key(Self, key))

ProcessRemoveBackground ==
    /\ Running /\ remove_bg_action
    /\ Len(workers) < MaxRequests
    /\ \E a \in BOOLEAN :
          Becomes("process_remove_background",
                  process_remove_background(Self, [NoEnv EXCEPT !.abort = a]))

\* A run that emits result before it learns that the request failed.
RunEmitsResultThenError(i, outcome) ==
    CASE outcome = "image" -> <<Signal("result", i, Picture("bgOut"))>>
      [] outcome = "garbage" -> <<Signal("result", i, Bad)>>
      [] OTHER -> <<Signal("result", i, Bad), Signal("error", i, Null)>>

\* The signals RemoveBgWorker.run of worker i emits in its try and except
\* clauses: result with the response's content, or error.
RunEmits(i, outcome) ==
    CASE outcome = "image" -> <<Signal("result", i, Picture("bgOut"))>>
      [] outcome = "garbage" -> <<Signal("result", i, Bad)>>
      [] OTHER -> <<Signal("error", i, Null)>>

\* RemoveBgWorker.run up to the emission of result or error.  The request
\* fails when the file cannot be opened and may fail otherwise; a response
\* holds image bytes or bytes that are no image.
WorkerRun ==
    /\ app_state \in {"running", "closed"}
    /\ \E i \in DOMAIN workers :
          /\ workers[i].pc = "run"
          /\ \E outcome \in Outcomes :
                /\ (workers[i].image_path = None
                        \/ files[workers[i].image_path] = Absent)
                      => outcome = "error"
                /\ queue' = queue \o RunEmits(i, outcome)
          /\ workers' = [workers EXCEPT ![i].pc = "emitted"]
          /\ UNCHANGED <<files, recent_files, pixmap, original_pixmap, label_pixmap,
                         label_size, area_size, scale_factor, rotation_angle,
                         image_modified_by_bg_removal, image_modified_by_crop,
                         current_image_path, current_image_index,
                         image_files_in_directory, remove_bg_api_key, is_cropping,
                         crop_origin_point_on_label, current_crop_ratio, crop_rect,
                         overlay_ratio, overlay_size, overlay_visible,
                         comparison_mode, crop_mode_checked, remove_bg_action,
                         save_action, save_as_action, compare_action, image_actions,
                         nav_actions, apply_crop_action, bg_removal_worker,
                         app_state, crops, saves, op>>

\* RemoveBgWorker.run: the finally clause.
WorkerFinally ==
    /\ app_state \in {"running", "closed"}
    /\ \E i \in DOMAIN workers :
          /\ workers[i].pc = "emitted"
          /\ queue' = Append(queue, Signal("finished", i, Null))
          /\ workers' = [workers EXCEPT ![i].pc = "finished"]
          /\ UNCHANGED <<files, recent_files, pixmap, original_pixmap, label_pixmap,
                         label_size, area_size, scale_factor, rotation_angle,
                         image_modified_by_bg_removal, image_modified_by_crop,
                         current_image_path, current_image_index,
                         image_files_in_directory, remove_bg_api_key, is_cropping,
                         crop_origin_point_on_label, current_crop_ratio, crop_rect,
                         overlay_ratio, overlay_size, overlay_visible,
                         comparison_mode, crop_mode_checked, remove_bg_action,
                         save_action, save_as_action, compare_action, image_actions,
                         nav_actions, apply_crop_action, bg_removal_worker,
                         app_state, crops, saves, op>>

\* The UI event loop handles the oldest queued signal.
\* workers[i].got lists the signals of worker i handled so far.
Dequeued ==
    LET e == Head(queue)
    IN  IF e.w \in DOMAIN workers
        THEN [Self EXCEPT !.queue = Tail(queue),
                          !.workers[e.w].got = Append(@, e.sig)]
        ELSE [Self EXCEPT !.queue = Tail(queue)]
DeliverResult ==
    /\ app_state \in {"running", "closed"}
    /\ queue # <<>> /\ Head(queue).sig = "result"
    /\ Becomes("_handle_bg_removal_result",
               _handle_bg_removal_result(Dequeued, Head(queue).data))

DeliverError ==
    /\ app_state \in {"running", "closed"}
    /\ queue # <<>> /\ Head(queue).sig = "error"
    /\ Becomes("_handle_bg_removal_error",
               _handle_bg_removal_error(Dequeued, Head(queue).data))

DeliverFinished ==
    /\ app_state \in {"running", "closed"}
    /\ queue # <<>> /\ Head(queue).sig = "finished"
    /\ Becomes("_handle_bg_removal_finished", _handle_bg_removal_finished(Dequeued))

\* QApplication.exec returns: nothing queued later is handled.
DeliverQuit ==
    /\ app_state = "closed"
    /\ queue # <<>> /\ Head(queue).sig = "quit"
    /\ Becomes("quit", [Dequeued EXCEPT !.app_state = "exited"])

ToggleCropMode ==
    /\ Running /\ image_actions
    /\ Becomes("toggle_crop_mode",
               toggle_crop_mode([Self EXCEPT !.crop_mode_checked = ~crop_mode_checked],
                                ~crop_mode_checked))

\* Escape in the crop overlay: cropCancelled.
CropCancelled ==
    /\ Running /\ overlay_visible
    /\ Becomes("cropCancelled", toggle_crop_mode(Self, FALSE))

\* Return in the crop overlay: cropApplied.
CropAppliedKey ==
    /\ Running /\ overlay_visible /\ ~RectIsNull(crop_rect)
    /\ crops < MaxCrops
    /\ Becomes("apply_crop_from_selection", apply_crop_from_selection(Self))

ApplyCropAction ==
    /\ Running /\ apply_crop_action
    /\ crops < MaxCrops
    /\ Becomes("apply_crop_from_selection", apply_crop_from_selection(Self))

MousePress ==
    /\ Running /\ is_cropping
    /\ crops < MaxCrops
    /\ \E pos \in MousePoints :
          Becomes("eventFilter.press", eventFilterPress(Self, pos))

MouseMove ==
    /\ Running /\ is_cropping
    /\ crop_origin_point_on_label # NoPoint
    /\ crop_origin_point_on_label # <<0, 0>>
    /\ crops < MaxCrops
    /\ \E pos \in MousePoints :
          Becomes("eventFilter.move", eventFilterMove(Self, pos))

MouseRelease ==
    /\ Running /\ is_cropping
    /\ Becomes("eventFilter.release", eventFilterRelease(Self))

SetCropRatio ==
    /\ Running
    /\ \E ratio \in Ratios \ {current_crop_ratio} :
          Becomes("set_crop_ratio", set_crop_ratio(Self, ratio))

ToggleComparisonMode ==
    /\ Running /\ compare_action
    /\ Becomes("toggle_comparison_mode",
               toggle_comparison_mode(Self, ~comparison_mode))

CloseWindow ==
    /\ Running
    /\ \E env \in PromptEnvs : Becomes("closeEvent", closeEvent(Self, env))

\* A session that went on after the selection was drawn: the API key set,
\* the background removal requested, and the worker's run come to `outcome`
\* (its signal queued, its finally clause not yet run).
RequestSession(p, q, outcome) ==
    Then(DragSession(p, q), LAMBDA dragged :
    Then(_save_api_key(After(dragged), "k"), LAMBDA keyed :
    Then(process_remove_background(After(keyed), NoEnv), LAMBDA started :
    [started EXCEPT !.workers[1].pc = "emitted",
                    !.queue = RunEmits(1, outcome)])))

InitRequested ==
    \E d \in Drags, outcome \in Outcomes :
        Starts("process_remove_background", RequestSession(d[1], d[2], outcome))

\* After construction, or after one of the sessions.
InitFreshOrEdited == Init \/ InitDragged \/ InitRequested

Next ==
    \/ OpenImageDialog \/ OpenRecentFile
    \/ SaveImage \/ SaveImageAs
    \/ NextImage \/ PrevImage \/ GoToFirst \/ GoToLast
    \/ DeleteCurrentImage
    \/ ZoomIn \/ ZoomOut \/ FitToWindow \/ ActualSize
    \/ RotateLeft \/ RotateRight \/ ResizeWindow
    \/ SetApiKey \/ ProcessRemoveBackground
    \/ WorkerRun \/ WorkerFinally
    \/ DeliverResult \/ DeliverError \/ DeliverFinished \/ DeliverQuit
    \/ ToggleCropMode \/ CropCancelled \/ CropAppliedKey \/ ApplyCropAction
    \/ MousePress \/ MouseMove \/ MouseRelease \/ SetCropRatio
    \/ ToggleComparisonMode
    \/ CloseWindow

Spec == Init /\ [][Next]_vars

(***************************************************************************)
(* The viewer's state space is the product of independent concerns; each   *)
(* of the specifications below lets the user perform the operations of one *)
(* concern (every behaviour of theirs is a behaviour of Spec).             *)
(***************************************************************************)
\* Background removal among loading, rotation and closing.
NextRemoveBg ==
    \/ OpenImageDialog \/ RotateRight
    \/ SetApiKey \/ ProcessRemoveBackground
    \/ WorkerRun \/ WorkerFinally
    \/ DeliverResult \/ DeliverError \/ DeliverFinished \/ DeliverQuit
    \/ CloseWindow

SpecRemoveBg == Init /\ [][NextRemoveBg]_vars

\* The same with the scheduling the threads provide: a started worker thread
\* runs to its end (the request has a timeout), and the UI event loop
\* handles every queued signal.
\* Handles(sig) is the step of DeliverResult, DeliverError or DeliverFinished
\* that takes the signal sig off the queue.
Handles(sig) ==
    /\ app_state \in {"running", "closed"}
    /\ queue # <<>> /\ Head(queue).sig = sig
    /\ queue' = Tail(queue)

SpecRemoveBgFair ==
    /\ SpecRemoveBg
    /\ WF_vars(WorkerRun) /\ WF_vars(WorkerFinally)
    /\ WF_queue(Handles("result")) /\ WF_queue(Handles("error"))
    /\ WF_queue(Handles("finished"))

\* Saving an image whose background may have been removed.
NextSave ==
    \/ OpenImageDialog
    \/ SetApiKey \/ ProcessRemoveBackground
    \/ WorkerRun \/ WorkerFinally
    \/ DeliverResult \/ DeliverError \/ DeliverFinished
    \/ SaveImage \/ SaveImageAs

SpecSave == Init /\ [][NextSave]_vars

\* The view: zoom, rotation, resizing, the comparison view, the crop mode.
NextView ==
    \/ OpenImageDialog
    \/ ZoomIn \/ ZoomOut \/ FitToWindow \/ ActualSize
    \/ RotateLeft \/ RotateRight \/ ResizeWindow
    \/ ToggleComparisonMode
    \/ ToggleCropMode \/ CropCancelled \/ SetCropRatio

SpecView == Init /\ [][NextView]_vars

\* Cropping a fitted and rotated image.
NextCrop ==
    \/ OpenImageDialog \/ RotateRight
    \/ ToggleCropMode \/ CropAppliedKey \/ ApplyCropAction
    \/ MousePress \/ MouseMove \/ MouseRelease
    \/ ToggleComparisonMode

SpecCrop == Init /\ [][NextCrop]_vars

\* Files: opening, navigation, saving, deleting, closing.
NextFiles ==
    \/ OpenImageDialog \/ OpenRecentFile
    \/ SaveImage \/ SaveImageAs
    \/ NextImage \/ PrevImage \/ GoToFirst \/ GoToLast
    \/ DeleteCurrentImage
    \/ RotateLeft \/ RotateRight
    \/ CloseWindow \/ DeliverQuit

SpecFiles == Init /\ [][NextFiles]_vars

\* Saving an image that was rotated and cropped.
NextCropSave ==
    \/ OpenImageDialog \/ RotateRight
    \/ ApplyCropAction
    \/ SaveImage \/ SaveImageAs

SpecCropSave == InitFreshOrDragged /\ [][NextCropSave]_vars

\* Saving an image that was zoomed and rotated.
NextSaveView ==
    \/ OpenImageDialog
    \/ ZoomIn \/ ZoomOut \/ FitToWindow \/ ActualSize
    \/ RotateRight \/ ResizeWindow
    \/ SaveImage \/ SaveImageAs

SpecSaveView == Init /\ [][NextSaveView]_vars

\* Everything that assigns rotation_angle: rotation, loading, cropping,
\* background removal, saving.
NextRotation ==
    \/ OpenImageDialog
    \/ RotateLeft \/ RotateRight
    \/ ApplyCropAction
    \/ WorkerFinally
    \/ DeliverResult \/ DeliverError \/ DeliverFinished
    \/ SaveImage \/ SaveImageAs

SpecRotation == InitFreshOrEdited /\ [][NextRotation]_vars

\* Zoom and rotation among loading, deleting and cropping.
NextFrame ==
    \/ OpenImageDialog \/ DeleteCurrentImage
    \/ ZoomIn \/ ZoomOut \/ FitToWindow \/ ActualSize
    \/ RotateLeft \/ RotateRight
    \/ ApplyCropAction

SpecFrame == InitFreshOrDragged /\ [][NextFrame]_vars

\* The crop rectangle under an aspect ratio.
NextRatio ==
    \/ OpenImageDialog
    \/ ToggleCropMode \/ SetCropRatio
    \/ MousePress \/ MouseMove \/ MouseRelease

SpecRatio == Init /\ [][NextRatio]_vars

(***************************************************************************)
(* Properties                                                              *)
(***************************************************************************)
\* Zoom, fit and rotation on pictures of many sizes.
NextSized ==
    \/ ZoomIn \/ ZoomOut \/ FitToWindow \/ ActualSize
    \/ RotateLeft \/ RotateRight \/ ResizeWindow
SpecSized == (Init \/ InitSized) /\ [][NextSized]_vars

\* Applying a selection drawn on a picture of another size.
NextSizedCrop ==
    \/ ZoomIn \/ ZoomOut \/ ActualSize \/ RotateRight
    \/ CropAppliedKey \/ ApplyCropAction
SpecSizedCrop == InitSizedDragged /\ [][NextSizedCrop]_vars

ImageState ==
    <<pixmap, rotation_angle, image_modified_by_bg_removal, image_modified_by_crop>>

\* The step is apply_crop_from_selection (the Apply action or Return in the
\* overlay).
CropStep == op'.name = "apply_crop_from_selection" /\ workers' = workers
\* The rectangle in base coordinates that the handler computes in this state.
MappedNow ==
    MapToOriginal(crop_rect, label_size, label_pixmap.w, label_pixmap.h,
                  Width(pixmap), scale_factor)

\* C1: when the selection lies inside the displayed bitmap, the rectangle
\* apply_crop_from_selection computes lies inside the base bitmap.
C1_MappedInsideBase ==
    (op.name = "apply_crop_from_selection" /\ op.out.crop.sel_inside)
        => RectInside(op.out.crop.src, op.out.crop.bw, op.out.crop.bh)

\* Worker i has been started and its finished signal has not been handled.
Outstanding(i) ==
    ~(\E k \in DOMAIN workers[i].got : workers[i].got[k] = "finished")
InFlight == {i \in DOMAIN workers : Outstanding(i)}

\* C2: while a background-removal worker is outstanding the remove-background
\* action is disabled, and at most one worker is in flight.
C2_NoRequestWhileOutstanding ==
    /\ (Running /\ InFlight # {}) => ~remove_bg_action
    /\ Cardinality(InFlight) <= 1

\* C3: with an image loaded, the image label shows the base pixmap rotated
\* by rotation_angle and scaled by scale_factor.
C3_LabelShowsPixmap ==
    ~IsNull(pixmap)
        => label_pixmap = RenderForDisplay(pixmap, rotation_angle, scale_factor)

\* The signals of worker i in the order the UI thread meets them: those
\* handled, then those still queued.
RECURSIVE QueuedOf(_, _)
QueuedOf(q, i) ==
    IF q = <<>> THEN <<>>
    ELSE IF Head(q).w = i /\ Head(q).sig # "quit"
         THEN <<Head(q).sig>> \o QueuedOf(Tail(q), i)
         ELSE QueuedOf(Tail(q), i)
TraceOf(i) == workers[i].got \o QueuedOf(queue, i)
IsPrefix(a, b) == Len(a) <= Len(b) /\ \A k \in DOMAIN a : a[k] = b[k]
\* A step of a worker thread.
WorkerStep ==
    /\ Len(workers') = Len(workers)
    /\ \E i \in DOMAIN workers : workers'[i].pc # workers[i].pc

\* C4: each worker emits exactly one of result and error and then finished,
\* the UI thread handles them in that order, and a step of the worker
\* changes no image state.
C4_OneOutcomeThenFinished ==
    /\ [](\A i \in DOMAIN workers :
            /\ \/ IsPrefix(TraceOf(i), <<"result", "finished">>)
               \/ IsPrefix(TraceOf(i), <<"error", "finished">>)
            /\ Len(TraceOf(i)) = CASE workers[i].pc = "run" -> 0
                                   [] workers[i].pc = "emitted" -> 1
                                   [] OTHER -> 2)
    /\ [][WorkerStep => UNCHANGED ImageState]_vars

\* C4 witness: two workers, one handled its result and the other its error,
\* both before their finished signals.
C4_Witness ==
    \E i, j \in DOMAIN workers :
        /\ workers[i].got = <<"result", "finished">>
        /\ workers[j].got = <<"error", "finished">>

\* C5: a result handled after the window has been closed changes neither
\* pixmap nor rotation_angle nor image_modified_by_bg_removal.
C5_ResultDiscardedAfterClose ==
    [][(app_state = "closed" /\ op'.name = "_handle_bg_removal_result"
            /\ queue # <<>> /\ queue' = Tail(queue))
        => UNCHANGED <<pixmap, rotation_angle, image_modified_by_bg_removal>>]_vars

\* C6: when the handled result does not decode, pixmap, rotation_angle,
\* scale_factor and both modified flags are unchanged and ValueError is
\* raised.
C6_DecodeFailureLeavesState ==
    [][(queue # <<>> /\ Head(queue).sig = "result" /\ Head(queue).data = Bad
            /\ queue' = Tail(queue))
        => /\ UNCHANGED <<ImageState, scale_factor>>
           /\ op'.out.raised = "ValueError"]_vars

\* C6 witness: a response that is no image was handled while the image was
\* rotated.
C6_Witness ==
    /\ op.name = "_handle_bg_removal_result"
    /\ op.out.raised = "ValueError"
    /\ rotation_angle # 0
    /\ ~IsNull(pixmap)

\* C7: a handler whose load_image calls all returned False, and that wrote
\* and removed no file, leaves pixmap, current_image_path,
\* current_image_index, image_files_in_directory, rotation_angle,
\* scale_factor and both modified flags unchanged.
C7_FailedLoadLeavesState ==
    [][(op'.out.load_failed /\ op'.out.ret # "True" /\ files' = files)
        => UNCHANGED <<ImageState, scale_factor, current_image_path,
                       current_image_index, image_files_in_directory>>]_vars

\* C8: a bitmap whose background was removed is written as PNG only.
C8_BgRemovedWrittenAsPng ==
    (op.out.wrote.path # None /\ op.out.wrote.bg) => op.out.wrote.fmt = "PNG"

\* C9: while image_modified_by_bg_removal is set, every write went through
\* the save-as prompt.
C9_BgRemovedSavePrompts ==
    (op.out.wrote.path # None /\ op.out.wrote.bg) => op.out.wrote.prompted

\* C9 witness: save_image wrote a background-removed image after the prompt.
C9_Witness ==
    /\ op.name = "save_image"
    /\ op.out.wrote.path # None
    /\ op.out.wrote.bg
    /\ op.out.wrote.prompted

\* C10: apply_crop_from_selection with a null or zero-sized selection, with
\* a mapped rectangle that is empty or not inside the base bitmap, or with
\* no bitmap, leaves pixmap, image_modified_by_crop, rotation_angle,
\* scale_factor and is_cropping unchanged.
C10_DegenerateCropIsNoOp ==
    [][(CropStep
          /\ \/ IsNull(pixmap)
             \/ RectIsNull(crop_rect) \/ crop_rect.w = 0 \/ crop_rect.h = 0
             \/ RectIsEmpty(MappedNow)
             \/ ~RectInside(MappedNow, Width(pixmap), Height(pixmap)))
        => UNCHANGED <<pixmap, image_modified_by_crop, rotation_angle,
                       scale_factor, is_cropping>>]_vars

\* C11: a crop that is applied replaces the base pixmap with the
\* sub-rectangle sourceRect of the previous base pixmap (its width and height
\* are sourceRect's), sets image_modified_by_crop and leaves rotation_angle
\* unchanged.
C11_CropReplacesWithSourceRect ==
    [][(CropStep /\ op'.out.crop.applied)
        => /\ Width(pixmap') = op'.out.crop.src.w
           /\ Height(pixmap') = op'.out.crop.src.h
           /\ image_modified_by_crop'
           /\ rotation_angle' = rotation_angle]_vars

\* The step is a save_image or save_image_as the user asked for.
SaveStep == op'.name \in {"save_image", "save_image_as"}

\* C12: a save whose write fails (pixmap.save returns false) leaves pixmap,
\* rotation_angle, scale_factor, both modified flags and current_image_path
\* as they were.
C12_SaveFailureLeavesState ==
    [][(SaveStep /\ op'.out.message = "Save Error")
        => UNCHANGED <<ImageState, scale_factor, current_image_path>>]_vars

\* C12 witness: the write of a rotated and cropped image failed.
C12_Witness ==
    /\ op.name = "save_image"
    /\ op.out.message = "Save Error"
    /\ rotation_angle # 0
    /\ image_modified_by_crop

\* C13: after a successful save_image or save_image_as, rotation_angle is 0
\* and image_modified_by_crop is false, and the bitmap written is the base
\* pixmap turned by the rotation_angle of before the save.
C13_SaveBakesRotationAndResets ==
    [][(SaveStep /\ op'.out.ret = "True")
        => /\ rotation_angle' = 0
           /\ ~image_modified_by_crop'
           /\ op'.out.wrote.img = Transformed(pixmap, rotation_angle)]_vars

\* C13 witness: a cropped image was saved under a new name with a quarter
\* turn baked in.
C13_Witness ==
    /\ op.name = "save_image_as"
    /\ op.out.ret = "True"
    /\ op.out.wrote.img.rot = 90
    /\ op.out.wrote.img.cw < ImgLong
    /\ rotation_angle = 0

\* What save_image and save_image_as write in state s for the answers env.
WrittenBy(s, env) ==
    <<save_image(s, env).out.wrote.img, save_image(s, env).out.wrote.fmt,
      save_image_as(s, env).out.wrote.img, save_image_as(s, env).out.wrote.fmt>>

\* C14: what a save writes does not depend on scale_factor: it is the same
\* bitmap, of the same dimensions, after zoom_in, zoom_out, fit_to_window
\* or actual_size as before.
C14_SavedBitmapIgnoresScale ==
    ~IsNull(pixmap)
        => \A env \in SaveEnvs :
             \A z \in {zoom_in(Self), zoom_out(Self),
                        fit_to_window(Self), actual_size(Self)} :
                /\ z.scale_factor # scale_factor
                      => WrittenBy(z, env) = WrittenBy(Self, env)
                /\ z.pixmap = pixmap /\ z.rotation_angle = rotation_angle

\* C14 witness: a rotated image was written while shown at 125 %.
C14_Witness ==
    /\ op.name \in {"save_image", "save_image_as"}
    /\ op.out.wrote.path # None
    /\ op.out.wrote.sf = <<5, 4>>
    /\ op.out.wrote.img.rot # 0

\* min(area width / bitmap width, area height / bitmap height) for the
\* bitmap shown unrotated in the scroll area.
FitScale(b, area) == RatMin(Rat(area[1], Width(b)), Rat(area[2], Height(b)))

\* C15: after a handler whose load_image succeeded, rotation_angle is 0,
\* scale_factor is the fit-to-window value of the new bitmap in the current
\* scroll area, and both modified flags are false.
C15_LoadResetsView ==
    (op.out.loaded # None /\ ~IsNull(pixmap))
        => /\ rotation_angle = 0
           /\ scale_factor = FitScale(pixmap, area_size)
           /\ ~image_modified_by_bg_removal
           /\ ~image_modified_by_crop

\* C15 witness: an image was loaded into the resized window, where its
\* fit-to-window scale is not 1.
C15_Witness ==
    /\ op.name = "open_image_dialog"
    /\ op.out.loaded = "a.png"
    /\ area_size = <<AreaShort, AreaLong>>
    /\ scale_factor # One
    /\ rotation_angle = 0

\* The UI thread handles a result signal whose bytes decode.
GoodResultStep ==
    /\ queue # <<>> /\ queue' = Tail(queue)
    /\ Head(queue).sig = "result" /\ Head(queue).data # Bad

\* C16: a result that decodes replaces the base pixmap with the decoded
\* response, sets image_modified_by_bg_removal and resets rotation_angle to
\* 0, whatever rotation was pending.
C16_ResultReplacesPixmap ==
    [][GoodResultStep
        => /\ pixmap' = Head(queue).data
           /\ image_modified_by_bg_removal'
           /\ rotation_angle' = 0]_vars

\* C16 witness: the response has replaced the image that was loaded.
C16_Witness ==
    /\ op.name = "_handle_bg_removal_result"
    /\ op.out.raised = None
    /\ pixmap = Picture("bgOut")
    /\ original_pixmap = Picture("imgA")
    /\ image_modified_by_bg_removal
    /\ rotation_angle = 0

\* The UI thread handles an error signal.
ErrorStep ==
    /\ queue # <<>> /\ queue' = Tail(queue)
    /\ Head(queue).sig = "error"
\* The signal sig of worker i has been handled.
Handled(i, sig) ==
    i \in DOMAIN workers /\ \E k \in DOMAIN workers[i].got : workers[i].got[k] = sig
\* How often sig occurs in the signals of worker i.
Occurrences(i, sig) ==
    Cardinality({k \in DOMAIN TraceOf(i) : TraceOf(i)[k] = sig})

\* C17: a failed request shows one API Error dialog; the handling of the
\* error starts no request and leaves pixmap, rotation_angle and the
\* modified flags unchanged; and, unless the application ends first, the
\* remove-background action is enabled afterwards.
C17_FailureReportedOnceThenRetry ==
    /\ [][ErrorStep
            => /\ op'.out.message = "API Error"
               /\ Len(workers') = Len(workers)
               /\ bg_removal_worker' = bg_removal_worker
               /\ UNCHANGED ImageState]_vars
    /\ [](\A i \in DOMAIN workers : Occurrences(i, "error") <= 1)
    /\ \A i \in 1..MaxRequests :
          (Handled(i, "error") /\ Running) ~> (remove_bg_action \/ ~Running)

\* C17 witness: after a failed request the finished signal was handled and
\* the action is enabled again.
C17_Witness ==
    /\ op.name = "_handle_bg_removal_finished"
    /\ \E i \in DOMAIN workers : workers[i].got = <<"error", "finished">>
    /\ remove_bg_action
    /\ Running

\* C18: rotation_angle is 0, 90, 180 or 270 in every reachable state.
C18_RotationIsQuarterTurn == rotation_angle \in {0, 90, 180, 270}

\* C18 witness: rotate_left has turned an unrotated image to 270 degrees.
C18_Witness ==
    /\ op.name = "rotate_left"
    /\ rotation_angle = 270
    /\ ~IsNull(pixmap)

\* The handlers that change the view only (scale_image runs inside zoom_in
\* and zoom_out).
ViewHandlers ==
    {"zoom_in", "zoom_out", "fit_to_window", "actual_size",
     "rotate_left", "rotate_right"}
\* The step left the current image as it was.
ViewFrame ==
    UNCHANGED <<pixmap, image_modified_by_bg_removal, image_modified_by_crop,
                current_image_path>>
\* The step loaded an image, applied a crop or applied a response.
LoadCropOrResult ==
    \/ op'.out.loaded # None
    \/ op'.out.crop.applied
    \/ op'.name = "_handle_bg_removal_result"

\* C19 as claimed: the zoom and rotation handlers leave the base pixmap, both
\* modified flags and current_image_path unchanged, and the base pixmap is
\* changed only by load, crop application and background-removal
\* application.
C19_OnlyLoadCropResultChangePixmap ==
    [][/\ op'.name \in ViewHandlers => ViewFrame
       /\ pixmap' # pixmap => LoadCropOrResult]_vars

\* C19 amended: the zoom and rotation handlers leave the base pixmap, both
\* modified flags and current_image_path unchanged, and the base pixmap is
\* changed only by load, crop application, background-removal application
\* and by delete_current_image clearing it.
C19_OnlyLoadCropResultDeleteChangePixmap ==
    [][/\ op'.name \in ViewHandlers => ViewFrame
       /\ pixmap' # pixmap
            => \/ LoadCropOrResult
               \/ op'.name = "delete_current_image" /\ IsNull(pixmap')]_vars

\* C19 witness: a cropped and rotated image was zoomed.
C19_Witness ==
    /\ op.name = "zoom_in"
    /\ image_modified_by_crop
    /\ rotation_angle # 0
    /\ ~IsNull(pixmap)

\* set_crop_ratio stores a rectangle when a ratio is given, there is a
\* rectangle, and the constrained one is not null.
RatioStores ==
    /\ op'.name = "set_crop_ratio"
    /\ overlay_ratio' # NoRatio
    /\ ~RectIsNull(crop_rect)
    /\ ~RectIsNull(bounded_rect([Self EXCEPT !.overlay_ratio = overlay_ratio']))
\* The rubber-band drag always stores one.
DragStores == op'.name = "eventFilter.move" /\ overlay_ratio' # NoRatio
KeepsRatio(r, ratio) == r.h = Trunc(r.w * ratio[2], ratio[1])

\* C20: with an aspect ratio (w, h) set, the crop rectangle stored by the
\* rubber-band drag or by set_ratio on an existing rectangle has
\* height = int(width * h / w), also after the clipping to the overlay.
C20_StoredRectKeepsRatio ==
    [][(RatioStores \/ DragStores) => KeepsRatio(crop_rect', overlay_ratio')]_vars

\* C21: after fit_to_window the displayed bitmap is no wider and no higher
\* than the scroll area, and on one axis it is within 1 pixel of it.
C21_FitFillsContainer ==
    (op.name = "fit_to_window" /\ ~IsNull(pixmap))
        => /\ label_pixmap.w <= area_size[1]
           /\ label_pixmap.h <= area_size[2]
           /\ \/ label_pixmap.w >= area_size[1] - 1
              \/ label_pixmap.h >= area_size[2] - 1

\* The footprint of the base bitmap b shown at the given rotation.
Footprint(b, angle) ==
    IF angle % 180 # 0 THEN <<Height(b), Width(b)>> ELSE <<Width(b), Height(b)>>
\* The handlers that are, or end with, a call of fit_to_window on the state
\* they found.
FitStep == op'.name \in {"fit_to_window", "resizeEvent"}

\* C22: fit_to_window sets scale_factor to min(containerWidth / w,
\* containerHeight / h), (w, h) being the base bitmap's size with the sides
\* swapped at 90 and 270 degrees; with a side of 0 it changes nothing.
C22_FitScaleIsMinRatio ==
    [][FitStep =>
         LET size == Footprint(pixmap, rotation_angle)
         IN  IF size[1] = 0 \/ size[2] = 0
             THEN Self' = [Self EXCEPT !.area_size = area_size']
             ELSE scale_factor' = RatMin(Rat(area_size'[1], size[1]),
                                         Rat(area_size'[2], size[2]))]_vars

\* The 100x200 picture turned by 90 degrees and fitted into 300x300 has
\* scale_factor 1.5; and a fit has found no bitmap.
C22_Witness ==
    /\ op.name = "fit_to_window"
    /\ Width(pixmap) = 100 /\ Height(pixmap) = 200
    /\ rotation_angle = 90
    /\ area_size = <<300, 300>>
    /\ scale_factor = <<3, 2>>

Four(turn(_), s) == turn(turn(turn(turn(s))))

\* C24: four rotate_right, and four rotate_left, return rotation_angle to
\* what it was and the label to the bitmap rendered before them; rotate_left
\* undoes rotate_right on rotation_angle and rotate_right undoes rotate_left.
C24_FourQuarterTurnsAreIdentity ==
    ~IsNull(pixmap)
        => /\ rotate_left(rotate_right(Self)).rotation_angle = rotation_angle
           /\ rotate_right(rotate_left(Self)).rotation_angle = rotation_angle
           /\ \A turned \in {Four(rotate_right, Self), Four(rotate_left, Self)} :
                 /\ turned.rotation_angle = rotation_angle
                 /\ turned.label_pixmap = update_image_display(Self).label_pixmap
                 /\ turned.pixmap = pixmap

\* A quarter turn to the right has brought the rotation back to 0, and the
\* label shows the unrotated bitmap again.
C24_Witness ==
    /\ op.name = "rotate_right"
    /\ rotation_angle = 0
    /\ ~IsNull(pixmap)
    /\ Width(pixmap) # Height(pixmap)
    /\ label_pixmap = RenderForDisplay(pixmap, 0, scale_factor)

\* scale_factor raised to the largest of the corrections 1/rw and 1/rh that
\* apply when rw * sf < 1 or rh * sf < 1.
RaisedScale(rw, rh, sf) ==
    LET needs_w == RatLess(RatMul(<<rw, 1>>, sf), One)
        needs_h == RatLess(RatMul(<<rh, 1>>, sf), One)
        for_w == IF needs_w THEN Rat(1, rw) ELSE sf
        for_h == IF needs_h THEN Rat(1, rh) ELSE sf
    IN  RatMax(for_w, for_h)
\* k is max(1, round(n * q)) for an integer n and a rational q, a half being
\* rounded either way.
IsRoundedSide(k, n, q) ==
    \E r \in {Trunc(n * q[1], q[2]), Trunc(n * q[1], q[2]) + 1} :
        /\ Abs(2 * r * q[2] - 2 * n * q[1]) <= q[2]
        /\ k = Max(1, r)

\* C25: the label shows the rotated bitmap scaled to
\* max(1, round(rw * e)) x max(1, round(rh * e)), e being scale_factor raised
\* so that no side falls below 1 pixel; and no side of it is below 1.
C25_RenderedSize ==
    (~IsNull(pixmap) /\ op.name # "__init__")
        => LET size == Footprint(pixmap, rotation_angle)
               e == RaisedScale(size[1], size[2], scale_factor)
           IN  /\ IsRoundedSide(label_pixmap.w, size[1], e)
               /\ IsRoundedSide(label_pixmap.h, size[2], e)
               /\ label_pixmap.w >= 1 /\ label_pixmap.h >= 1

\* The selection that covers exactly the bitmap the label shows, and the
\* rectangle apply_crop_from_selection computes for it in this state.
WholeSelection == Rect(0, 0, label_pixmap.w, label_pixmap.h)
MappedWhole ==
    apply_crop_from_selection([Self EXCEPT !.crop_rect = WholeSelection]).out.crop.src

\* C26: at every scale factor and rotation, the selection of the whole
\* displayed bitmap maps to the whole base bitmap, each edge within 1 pixel.
C26_WholeSelectionMapsToWholeBase ==
    (/\ ~IsNull(pixmap)
     /\ label_pixmap.w >= MinApplySize
     /\ label_pixmap.h >= MinApplySize)
        => /\ Abs(MappedWhole.x) <= 1
           /\ Abs(MappedWhole.y) <= 1
           /\ Abs(MappedWhole.x + MappedWhole.w - Width(pixmap)) <= 1
           /\ Abs(MappedWhole.y + MappedWhole.h - Height(pixmap)) <= 1

\* The result at the head of the queue answers a request made for another
\* image than the current one, or for the current one before it was edited.
ResultIsStale ==
    /\ queue # <<>>
    /\ Head(queue).sig = "result"
    /\ Head(queue).w \in DOMAIN workers
    /\ \/ workers[Head(queue).w].image_path # current_image_path
       \/ workers[Head(queue).w].shown # pixmap

\* C27: a result that arrives after the current image has changed or its
\* base pixmap has been edited does not replace the pixmap.
C27_StaleResultNotApplied ==
    [][(op'.name = "_handle_bg_removal_result" /\ ResultIsStale)
        => pixmap' = pixmap]_vars

\* C28: a step that loads an image over one with unsaved changes has asked
\* "Unsaved Changes" and was answered Save or Discard; and a navigation
\* answered Cancel leaves the viewer as it was.
C28_NoDiscardWithoutPrompt ==
    [][/\ (HasUnsavedChanges(Self) /\ op'.out.loaded # None)
            => op'.out.asked \in {"Save", "Discard"}
       /\ (op'.name \in {"next_image_manual", "prev_image_manual"}
             /\ op'.out.asked = "Cancel")
            => Self' = Self]_vars

\* os.path.normpath leaves the paths of the model as they are.
\* C29: current_image_index is -1, or an index into
\* image_files_in_directory whose entry is current_image_path.
C29_IndexNamesCurrentImage ==
    \/ current_image_index = -1
    \/ /\ 0 <= current_image_index
       /\ current_image_index < Len(image_files_in_directory)
       /\ image_files_in_directory[current_image_index + 1] = current_image_path

\* C30: a viewer that holds a bitmap has the path of its file.
C30_ShownBitmapHasPath == ~IsNull(pixmap) => current_image_path # None

====
